---- MODULE Spec2Model ----
(***************************************************************************)
(* Model of download_files.py: the Key Builder (get_object_name_dict and   *)
(* OBJECT_NAME_PATTERN) and the Fetcher (download_files_for_date) running  *)
(* against a local data directory.                                         *)
(*                                                                         *)
(* Strings are sequences of one-character strings, so that formatting,     *)
(* zero padding and basename extraction are computed character by          *)
(* character as Python computes them.                                      *)
(***************************************************************************)
EXTENDS Integers, Sequences, FiniteSets

VARIABLES
    ts,        \* download_datetime handed to download_files_for_date
    procs,     \* the Fetcher processes sharing the data directory
    disk,      \* the data directory: destination path -> file content
    buf,       \* per process: what its open file object holds written but not yet on disk
    pc,        \* per process: position inside download_files_for_date: idle, check,
               \* open, copy (file open, nothing written), copying (part written),
               \* written (all written, the call not yet returned), done, failed
    band,      \* per process: the loop variable of line 69
    runs,      \* per process: one record per invocation (calls made, bands handled, result)
    opened,    \* per process: what its latest open(..., 'wb') found and left
    watch,     \* per process: who opened its destination since its existence test
    kb_prev,   \* Key Builder harness: the call before the last one
    kb_cur     \* Key Builder harness: the last call (input, dict, object name)

vars == <<ts, procs, disk, buf, pc, band, runs, opened, watch, kb_prev, kb_cur>>

fetchVars == <<ts, procs, disk, buf, pc, band, runs, opened, watch>>

keyVars == <<kb_prev, kb_cur>>

-----------------------------------------------------------------------------
(* Bounds *)

\* Invocations of download_files_for_date one process makes one after another.
MaxRuns == 2

\* Destination files still to fetch when two processes start together: the
\* files of the last RaceBands bands (an earlier run fetched the others).
RaceBands == 4

-----------------------------------------------------------------------------
(* Text helpers *)

DigitChars == <<"0", "1", "2", "3", "4", "5", "6", "7", "8", "9">>

RECURSIVE Dec(_)
\* Decimal digits of a natural number, without padding.
Dec(n) == IF n < 10 THEN <<DigitChars[n + 1]>>
          ELSE Dec(n \div 10) \o <<DigitChars[(n % 10) + 1]>>

RECURSIVE ZeroPad(_, _)
\* Left padding with "0" up to width w; longer text is left alone.
ZeroPad(s, w) == IF Len(s) >= w THEN s ELSE ZeroPad(<<"0">> \o s, w)

\* A plausible slip: the padding flag is dropped from the format ('{:d}').
FormatIntNoPad(n, w) == IF n < 0 THEN <<"-">> \o Dec(-n) ELSE Dec(n)

\* Python's format spec '0<w>d': sign-aware zero padding to a minimum width.
FormatInt(n, w) == IF n < 0 THEN <<"-">> \o ZeroPad(Dec(-n), w - 1)
                   ELSE ZeroPad(Dec(n), w)

\* strftime('%Y'): the year in decimal (four digits for the years modelled).
StrfY(t) == Dec(t.year)

\* strftime('%m'), ('%d'), ('%H'), ('%M'): two digits, zero padded.
StrfM(t) == ZeroPad(Dec(t.month), 2)

StrfD(t) == ZeroPad(Dec(t.day), 2)

StrfH(t) == ZeroPad(Dec(t.hour), 2)

StrfMin(t) == ZeroPad(Dec(t.minute), 2)

-----------------------------------------------------------------------------
(* Timestamps *)

DateTime(y, mo, d, h, mi, s) ==
    [year |-> y, month |-> mo, day |-> d, hour |-> h, minute |-> mi, second |-> s]

EXAMPLE_DATE == DateTime(2024, 4, 2, 16, 0, 0)

\* dt.datetime(2022, 10, 28): the instant Himawari-9 data starts.
Cutover == DateTime(2022, 10, 28, 0, 0, 0)

AsTuple(t) == <<t.year, t.month, t.day, t.hour, t.minute, t.second>>

RECURSIVE LexLess(_, _)
LexLess(a, b) ==
    IF a = <<>> \/ b = <<>> THEN FALSE
    ELSE IF Head(a) # Head(b) THEN Head(a) < Head(b)
    ELSE LexLess(Tail(a), Tail(b))

\* A plausible slip: '<=' where the code has '<'.
BeforeOrAt(a, b) == a = b \/ LexLess(AsTuple(a), AsTuple(b))

\* datetime '<': chronological order.
Before(a, b) == LexLess(AsTuple(a), AsTuple(b))

\* Timestamps the Key Builder is exercised on: both sides of the cutover in
\* every field, and the example date.
TimeStamps ==
    { DateTime(y, mo, d, h, mi, s) :
        y \in {2022, 2023}, mo \in {10, 11}, d \in {27, 28},
        h \in {0, 23}, mi \in {0, 59}, s \in {0, 30} }
    \cup {EXAMPLE_DATE}

\* Timestamps the Fetcher is run with: the example date of the entry point,
\* the last minute of Himawari-8, the first instant of Himawari-9, and two
\* dates whose fields lie on opposite sides of the cutover's.
FetchTimes == {EXAMPLE_DATE, DateTime(2022, 10, 27, 23, 59, 0), Cutover,
               DateTime(2022, 11, 27, 0, 0, 0), DateTime(2021, 12, 31, 23, 59, 30)}

\* Band numbers the Key Builder is exercised on (the Fetcher passes 1..6).
BandInputs == {-10, -1, 0, 1, 4, 5, 6, 99, 100}

-----------------------------------------------------------------------------
(* Key Builder *)

HIMAWARI_8_BUCKET == <<"n","o","a","a","-","h","i","m","a","w","a","r","i","8">>

HIMAWARI_9_BUCKET == <<"n","o","a","a","-","h","i","m","a","w","a","r","i","9">>

H08 == <<"H", "0", "8">>

H09 == <<"H", "0", "9">>

R10 == <<"R", "1", "0">>

R20 == <<"R", "2", "0">>

Resolution(obs_band) == IF obs_band <= 4 THEN R10 ELSE R20

SatelliteCode(t) == IF Before(t, Cutover) THEN H08 ELSE H09

BucketName(t) == IF Before(t, Cutover) THEN HIMAWARI_8_BUCKET ELSE HIMAWARI_9_BUCKET

BandCode(obs_band) == <<"B">> \o FormatInt(obs_band, 2)

get_object_name_dict(download_datetime, obs_band) ==
    [ year           |-> StrfY(download_datetime),
      month          |-> StrfM(download_datetime),
      day            |-> StrfD(download_datetime),
      hour           |-> StrfH(download_datetime),
      minute         |-> StrfMin(download_datetime),
      satellite_code |-> SatelliteCode(download_datetime),
      band           |-> BandCode(obs_band),
      resolution     |-> Resolution(obs_band),
      bucket_name    |-> BucketName(download_datetime) ]

PatternRoot == <<"A","H","I","-","L","1","b","-","F","L","D","K","/">>

Slash == <<"/">>

Underscore == <<"_">>

PatternHS == <<"H","S","_">>

PatternFLDK == <<"_","F","L","D","K","_">>

PatternTail == <<"_","S","0","1","0","1",".","D","A","T",".","b","z","2">>

\* A plausible slip: the {minute} fields are left out of the pattern.
FormatObjectNameNoMinute(d) ==
    PatternRoot \o d.year \o Slash \o d.month \o Slash \o d.day \o Slash
    \o d.hour \o Slash
    \o PatternHS \o d.satellite_code \o Underscore
    \o d.year \o d.month \o d.day \o Underscore \o d.hour
    \o Underscore \o d.band \o PatternFLDK \o d.resolution \o PatternTail

\* OBJECT_NAME_PATTERN.format(**object_name_dict)
FormatObjectName(d) ==
    PatternRoot \o d.year \o Slash \o d.month \o Slash \o d.day \o Slash
    \o d.hour \o d.minute \o Slash
    \o PatternHS \o d.satellite_code \o Underscore
    \o d.year \o d.month \o d.day \o Underscore \o d.hour \o d.minute
    \o Underscore \o d.band \o PatternFLDK \o d.resolution \o PatternTail

\* os.path.basename: the text after the last "/" (all of it when there is none).
Basename(path) ==
    LET cuts == {i \in 1..Len(path) : path[i] = "/"}
        last == IF cuts = {} THEN 0
                ELSE CHOOSE i \in cuts : \A j \in cuts : j <= i
    IN  SubSeq(path, last + 1, Len(path))

DATA_DIR == <<"d", "a", "t", "a">>

\* DATA_DIR / os.path.basename(object_name)
OutputFileName(object_name) == DATA_DIR \o Slash \o Basename(object_name)

-----------------------------------------------------------------------------
(* Key Builder harness: the pure function applied to drawn inputs *)

NoCall == [called |-> FALSE]

KeyCallResult(t, b) ==
    LET d == get_object_name_dict(t, b)
    IN  [called |-> TRUE, time |-> t, obs_band |-> b, dict |-> d,
         object_name |-> FormatObjectName(d)]

\* The harness calls the Key Builder twice, on any two inputs.
KeyCall ==
    \E t \in TimeStamps, b \in BandInputs :
        /\ ~kb_prev.called
        /\ kb_prev' = kb_cur
        /\ kb_cur' = KeyCallResult(t, b)
        /\ UNCHANGED fetchVars

KeyInit ==
    /\ ts = EXAMPLE_DATE
    /\ procs = {}
    /\ disk = <<>>
    /\ buf = <<>>
    /\ pc = <<>>
    /\ band = <<>>
    /\ runs = <<>>
    /\ opened = <<>>
    /\ watch = <<>>
    /\ kb_prev = NoCall
    /\ kb_cur = NoCall

KeyNext == KeyCall

KeySpec == KeyInit /\ [][KeyNext]_vars

-----------------------------------------------------------------------------
(* Fetcher: download_files_for_date against the data directory *)

\* range(1, 7)
FirstBand == 1

LastBand == 6

Bands == FirstBand..LastBand

\* Lines 70-71 for one band of the loop.
ObjectName(t, b) == FormatObjectName(get_object_name_dict(t, b))

\* Line 70 for every timestamp the Fetcher is run with and every band number
\* modelled, and line 71 for every band of the loop, worked out once.
ObjectNameDicts ==
    [t \in FetchTimes |-> [b \in BandInputs \cup Bands |-> get_object_name_dict(t, b)]]

ObjectNames ==
    [t \in FetchTimes |-> [b \in Bands |-> FormatObjectName(ObjectNameDicts[t][b])]]

\* Line 73 for every timestamp the Fetcher is run with and every band of the
\* loop, worked out once.
DestPaths == [t \in FetchTimes |-> [b \in Bands |-> OutputFileName(ObjectName(t, b))]]

\* Line 73 for one band of the loop.
DestPath(t, b) == DestPaths[t][b]

\* The object's content arrives in this many writes to the open file.
Chunks == {1, 2}

\* A file that was in the directory before any modelled invocation: content
\* the Fetcher did not write, whatever it is.
StaleFile == [chunks |-> {}, src |-> <<>>]

\* A plausible slip: the existence test is lost and every band is downloaded.
NeverExists(d, path) == FALSE

\* os.path.exists(output_file_name)
FileExists(d, path) == path \in DOMAIN d

\* A new, empty file about to receive the object (bucket, key).
EmptyFile(bucket, key) == [chunks |-> {}, src |-> <<bucket, key>>]

\* The directory with path mapped to content f (created when absent).
PutFile(d, path, f) ==
    [q \in DOMAIN d \cup {path} |-> IF q = path THEN f ELSE d[q]]

\* A plausible slip: mode 'ab', which keeps what the file already holds.
OpenAB(d, path, bucket, key) ==
    IF path \in DOMAIN d THEN d ELSE PutFile(d, path, EmptyFile(bucket, key))

\* open(output_file_name, 'wb'): creates the file, or truncates the one there.
OpenWB(d, path, bucket, key) == PutFile(d, path, EmptyFile(bucket, key))

\* The parts cs reach the file at path (a flush of the file object's buffer,
\* or a write too large for the buffer).
WriteChunks(d, path, cs) ==
    IF cs = {} THEN d ELSE [d EXCEPT ![path].chunks = @ \cup cs]

\* f.write(part) inside download_fileobj, on the buffered file object of line
\* 76. A part that fits the room left in the buffer joins it and nothing is
\* written (flush = FALSE). A part that does not fit has the buffer written
\* out first (flush = TRUE); then a part no larger than the buffer is kept in
\* the emptied buffer (through = FALSE) and a larger one is written to the
\* file (through = TRUE).
DiskAfterWrite(d, path, held, c, flush, through) ==
    LET flushed == IF flush THEN WriteChunks(d, path, held) ELSE d
    IN  IF through THEN WriteChunks(flushed, path, {c}) ELSE flushed

BufAfterWrite(held, c, flush, through) ==
    IF through THEN {} ELSE (IF flush THEN {} ELSE held) \cup {c}

\* The file is written to only once the buffer has been written out.
WriteModes == {m \in [flush : BOOLEAN, through : BOOLEAN] : m.through => m.flush}

\* What a flush that fails part-way has written of the buffer held: the parts
\* written first, never all of them.
FlushedBeforeFailure(held) ==
    {S \in SUBSET held : S # held /\ \A c \in S : \A e \in held : e < c => e \in S}

\* The file holds the whole object.
Complete(f) == f.chunks = Chunks

\* A plausible slip: the loop steps by two.
SkipBand(b) == b + 2

\* The loop variable's next value.
NextBand(b) == b + 1

NoOpen == [band |-> 0, existed |-> FALSE, before |-> {}, after |-> {},
           others |-> {}, writers |-> {}]

\* Invocations one process makes: MaxRuns one after another when it runs
\* alone; in a race each process makes one, at the same time as the other.
RunsAllowed == IF Cardinality(procs) > 1 THEN 1 ELSE MaxRuns

\* The record of one invocation: the bands whose file was absent when it
\* began, the download calls made, the bands handled, how it ended, and, when
\* it failed: the band and the statement it failed in, the exception
\* download_fileobj raised (cause), the exception that reached the caller
\* (error), and what the failing band's file held at that moment.
NewRun == [absent |-> {b \in Bands : DestPath(ts, b) \notin DOMAIN disk},
           calls |-> <<>>, handled |-> <<>>, result |-> "running",
           failband |-> 0, failstage |-> "none",
           cause |-> "none", error |-> "none", left |-> {}]

\* What the file at path holds (nothing when there is no file).
Held(d, path) == IF path \in DOMAIN d THEN d[path].chunks ELSE {}

CurRun(p) == runs[p][Len(runs[p])]

SetCur(p, r) == [runs EXCEPT ![p][Len(runs[p])] = r]

\* The end of one loop iteration: the band is handled, the loop goes on or ends.
Advance(p, rs) ==
    LET r == rs[p][Len(rs[p])]
        r2 == [r EXCEPT !.handled = Append(@, band[p])]
    IN  IF NextBand(band[p]) > LastBand
        THEN /\ pc' = [pc EXCEPT ![p] = "done"]
             /\ band' = band
             /\ runs' = [rs EXCEPT ![p][Len(rs[p])] = [r2 EXCEPT !.result = "done"]]
        ELSE /\ pc' = [pc EXCEPT ![p] = "check"]
             /\ band' = [band EXCEPT ![p] = NextBand(band[p])]
             /\ runs' = [rs EXCEPT ![p][Len(rs[p])] = r2]

\* The current run of p ended by an exception at the given stage, the
\* directory being d when the exception has left download_files_for_date.
FailedRun(p, stage, cause, error, d) ==
    SetCur(p, [CurRun(p) EXCEPT !.result = "failed",
                                !.failband = band[p],
                                !.failstage = stage,
                                !.cause = cause,
                                !.error = error,
                                !.left = Held(d, DestPath(ts, band[p]))])

\* The exception download_fileobj raised, when the failure is in the copy.
CauseAt(stage) == IF stage = "copy" THEN "copy" ELSE "none"

\* A plausible slip: an except clause that removes what this invocation wrote.
RaiseRollback(p, stage) ==
    /\ pc' = [pc EXCEPT ![p] = "failed"]
    /\ runs' = FailedRun(p, stage, CauseAt(stage), stage, disk)
    /\ disk' = [q \in DOMAIN disk \
                      {DestPath(ts, CurRun(p).calls[i].band) : i \in DOMAIN CurRun(p).calls}
                  |-> disk[q]]
    /\ buf' = [buf EXCEPT ![p] = {}]
    /\ UNCHANGED band

\* A plausible slip: an except clause that tries the download again.
RaiseRetry(p, stage) ==
    /\ pc' = [pc EXCEPT ![p] = "open"]
    /\ disk' = disk
    /\ buf' = [buf EXCEPT ![p] = {}]
    /\ UNCHANGED <<band, runs>>

\* The exception of open or of download_fileobj leaves
\* download_files_for_date and reaches the caller as it is. When the file is
\* open the with statement closes it on the way out, which writes what the
\* buffer holds; nothing is removed, and the invocation is over.
Raise(p, stage) ==
    LET d2 == WriteChunks(disk, DestPath(ts, band[p]), buf[p])
    IN  /\ pc' = [pc EXCEPT ![p] = "failed"]
        /\ disk' = d2
        /\ buf' = [buf EXCEPT ![p] = {}]
        /\ runs' = FailedRun(p, stage, CauseAt(stage), stage, d2)
        /\ UNCHANGED band

\* Line 82 (and any later invocation): download_files_for_date is entered.
Start(p) ==
    /\ pc[p] \in {"idle", "done", "failed"}
    /\ Len(runs[p]) < RunsAllowed
    /\ pc' = [pc EXCEPT ![p] = "check"]
    /\ band' = [band EXCEPT ![p] = FirstBand]
    /\ runs' = [runs EXCEPT ![p] = Append(@, NewRun)]
    /\ UNCHANGED <<ts, procs, disk, buf, opened, watch, keyVars>>

\* Lines 70-74: the key, the destination path and the existence test.
Check(p) ==
    /\ pc[p] = "check"
    /\ IF FileExists(disk, DestPath(ts, band[p]))
       THEN Advance(p, runs)
       ELSE /\ pc' = [pc EXCEPT ![p] = "open"]
            /\ UNCHANGED <<band, runs>>
    /\ watch' = [watch EXCEPT ![p] = {}]
    /\ UNCHANGED <<ts, procs, disk, buf, opened, keyVars>>

\* Lines 75-77: open(..., 'wb') succeeds and download_fileobj is called.
Open(p) ==
    /\ pc[p] = "open"
    /\ LET b == band[p]
           path == DestPath(ts, b)
           d == get_object_name_dict(ts, b)
           key == FormatObjectName(d)
       IN  /\ disk' = OpenWB(disk, path, d.bucket_name, key)
           /\ opened' = [opened EXCEPT ![p] =
                           [band |-> b,
                            existed |-> path \in DOMAIN disk,
                            before |-> IF path \in DOMAIN disk THEN disk[path].chunks ELSE {},
                            after |-> disk'[path].chunks,
                            others |-> watch[p],
                            writers |-> {q \in procs \ {p} :
                                          /\ pc[q] \in {"copy", "copying"}
                                          /\ band[q] = b}]]
           /\ watch' = [q \in procs |->
                           IF q # p /\ pc[q] = "open" /\ band[q] = b
                           THEN watch[q] \cup {p} ELSE watch[q]]
           /\ runs' = SetCur(p, [CurRun(p) EXCEPT !.calls =
                        Append(@, [band |-> b, bucket |-> d.bucket_name, key |-> key])])
    /\ pc' = [pc EXCEPT ![p] = "copy"]
    /\ UNCHANGED <<ts, procs, buf, band, keyVars>>

\* Line 76: open raises (permission, disk full); no file is made.
OpenFail(p) ==
    /\ pc[p] = "open"
    /\ Raise(p, "open")
    /\ UNCHANGED <<ts, procs, opened, watch, keyVars>>

\* Line 77: download_fileobj writes the first part of the object to the file
\* object, whose buffer is empty.
CopyPart(p) ==
    /\ pc[p] = "copy"
    /\ \E m \in WriteModes :
          /\ disk' = DiskAfterWrite(disk, DestPath(ts, band[p]), buf[p], 1, m.flush, m.through)
          /\ buf' = [buf EXCEPT ![p] = BufAfterWrite(buf[p], 1, m.flush, m.through)]
    /\ pc' = [pc EXCEPT ![p] = "copying"]
    /\ UNCHANGED <<ts, procs, band, runs, opened, watch, keyVars>>

\* Line 77, the first system call of the write of a part that does not fit
\* the room left: the buffer is written out. The write of the part itself
\* follows (CopyRest), and another process may act in between.
CopyFlush(p) ==
    /\ pc[p] = "copying"
    /\ buf[p] # {}
    /\ disk' = WriteChunks(disk, DestPath(ts, band[p]), buf[p])
    /\ buf' = [buf EXCEPT ![p] = {}]
    /\ UNCHANGED <<ts, procs, pc, band, runs, opened, watch, keyVars>>

\* Line 77: download_fileobj writes the rest of the object to the file object
\* (the whole write, or what is left of it after CopyFlush).
CopyRest(p) ==
    /\ pc[p] = "copying"
    /\ \E m \in WriteModes :
          /\ disk' = DiskAfterWrite(disk, DestPath(ts, band[p]), buf[p], 2, m.flush, m.through)
          /\ buf' = [buf EXCEPT ![p] = BufAfterWrite(buf[p], 2, m.flush, m.through)]
    /\ pc' = [pc EXCEPT ![p] = "written"]
    /\ UNCHANGED <<ts, procs, band, runs, opened, watch, keyVars>>

\* Lines 77-78: download_fileobj returns and the with statement closes the
\* file, which writes what the buffer holds; the loop goes on.
CopyReturn(p) ==
    /\ pc[p] = "written"
    /\ disk' = WriteChunks(disk, DestPath(ts, band[p]), buf[p])
    /\ buf' = [buf EXCEPT ![p] = {}]
    /\ Advance(p, runs)
    /\ UNCHANGED <<ts, procs, opened, watch, keyVars>>

\* Lines 76-78: download_fileobj raises, before its first write, between
\* writes or after its last one; nothing catches it, and the close on the way
\* out succeeds.
CopyFail(p) ==
    /\ pc[p] \in {"copy", "copying", "written"}
    /\ Raise(p, "copy")
    /\ UNCHANGED <<ts, procs, opened, watch, keyVars>>

\* Lines 76-78: the closing of the file raises while writing out the buffer
\* (disk full, file size limit), either after download_fileobj returned or
\* while the exception it raised is on the way out (raised = TRUE). The
\* flush has written the first parts of the buffer at most, the rest is lost,
\* and the close's exception is the one that reaches the caller.
CloseFail(p) ==
    /\ pc[p] \in {"copying", "written"}
    /\ buf[p] # {}
    /\ \E raised \in BOOLEAN : \E S \in FlushedBeforeFailure(buf[p]) :
          LET d2 == WriteChunks(disk, DestPath(ts, band[p]), S)
          IN  /\ pc[p] = "copying" => raised
              /\ disk' = d2
              /\ runs' = FailedRun(p, "copy", IF raised THEN "copy" ELSE "none", "close", d2)
    /\ pc' = [pc EXCEPT ![p] = "failed"]
    /\ buf' = [buf EXCEPT ![p] = {}]
    /\ UNCHANGED <<ts, procs, band, opened, watch, keyVars>>

\* The data directory before the first modelled invocation: any of the six
\* destination files may already be there. Every combination is tried at
\* EXAMPLE_DATE, the timestamp the script passes; at the other timestamps the
\* directory is empty or holds the files of the first three bands.
InitPresent(t) ==
    IF t = EXAMPLE_DATE THEN SUBSET Bands ELSE {{}, {b \in Bands : b <= 3}}

InitDisks(t) ==
    { [path \in {DestPath(t, b) : b \in S} |-> StaleFile] : S \in InitPresent(t) }

InitFor(P) ==
    /\ ts \in FetchTimes
    /\ procs = P
    /\ disk \in InitDisks(ts)
    /\ buf = [p \in P |-> {}]
    /\ pc = [p \in P |-> "idle"]
    /\ band = [p \in P |-> FirstBand]
    /\ runs = [p \in P |-> <<>>]
    /\ opened = [p \in P |-> NoOpen]
    /\ watch = [p \in P |-> {}]
    /\ kb_prev = NoCall
    /\ kb_cur = NoCall

\* One Fetcher process, nothing else touching the directory.
Init == InitFor({1})

Next ==
    \/ \E p \in procs : Start(p)
    \/ \E p \in procs : Check(p)
    \/ \E p \in procs : Open(p)
    \/ \E p \in procs : OpenFail(p)
    \/ \E p \in procs : CopyPart(p)
    \/ \E p \in procs : CopyFlush(p)
    \/ \E p \in procs : CopyRest(p)
    \/ \E p \in procs : CopyReturn(p)
    \/ \E p \in procs : CopyFail(p)
    \/ \E p \in procs : CloseFail(p)

Spec == Init /\ [][Next]_vars

\* Two runs of the script at the same time: both are given EXAMPLE_DATE and
\* share a data directory in which the files of the last bands are missing.
InitRace ==
    /\ InitFor({1, 2})
    /\ ts = EXAMPLE_DATE
    /\ disk = [path \in {DestPath(ts, b) : b \in FirstBand..(LastBand - RaceBands)}
                  |-> StaleFile]

SpecRace == InitRace /\ [][Next]_vars

-----------------------------------------------------------------------------
(* Vocabulary of the properties *)

\* The bands of a run's download calls, in call order.
CallBands(r) == [i \in DOMAIN r.calls |-> r.calls[i].band]

Increasing(seq) == \A i, j \in DOMAIN seq : i < j => seq[i] < seq[j]

UpTo(n) == [i \in 1..n |-> i]

\* The calendar date as one number, and the date of dt.datetime(2022, 10, 28).
DateNumber(t) == t.year * 10000 + t.month * 100 + t.day

CutoverDate == 20221028

\* The cutover is at midnight, so a timestamp is strictly before it exactly
\* when its calendar date is.
StrictlyBeforeCutover(t) == DateNumber(t) < CutoverDate

MinuteOf(t) == <<t.year, t.month, t.day, t.hour, t.minute>>

Running(p) == pc[p] \in {"check", "open", "copy", "copying", "written"}

-----------------------------------------------------------------------------
(* Properties of the Fetcher running alone (Spec) *)

\* C1 as stated: whenever two invocations in succession both end normally,
\* the first made exactly six download calls and the second none.
C1_Original ==
    \A p \in procs : \A i \in DOMAIN runs[p] :
        (/\ i + 1 \in DOMAIN runs[p]
         /\ runs[p][i].result = "done"
         /\ runs[p][i + 1].result = "done")
        => /\ Len(runs[p][i].calls) = 6
           /\ Len(runs[p][i + 1].calls) = 0

\* C1 amended: whenever two invocations in succession both end normally, the
\* first made one download call for each destination file that was absent when
\* it began (six when none of the six files was there) and the second made none.
C1_Idempotence ==
    \A p \in procs : \A i \in DOMAIN runs[p] :
        (/\ i + 1 \in DOMAIN runs[p]
         /\ runs[p][i].result = "done"
         /\ runs[p][i + 1].result = "done")
        => /\ {runs[p][i].calls[j].band : j \in DOMAIN runs[p][i].calls} = runs[p][i].absent
           /\ Len(runs[p][i].calls) = Cardinality(runs[p][i].absent)
           /\ (runs[p][i].absent = 1..6 => Len(runs[p][i].calls) = 6)
           /\ Len(runs[p][i + 1].calls) = 0

\* Two invocations have ended normally, the first from a directory holding none
\* of the six files: six calls, then none.
C1_Witness ==
    \E p \in procs :
        /\ Len(runs[p]) >= 2
        /\ runs[p][1].absent = 1..6
        /\ runs[p][1].result = "done"
        /\ Len(runs[p][1].calls) = 6
        /\ runs[p][2].result = "done"
        /\ Len(runs[p][2].calls) = 0

\* C2: a step of the existence test that finds the destination file present
\* changes nothing in the directory, makes no download call and no open, and
\* goes on to the next band (or ends the loop).
C2_SkipIfExists ==
    [][\A p \in procs :
          (/\ pc[p] = "check"
           /\ DestPath(ts, band[p]) \in DOMAIN disk
           /\ <<pc[p], band[p], runs[p]>>' # <<pc[p], band[p], runs[p]>>)
          => /\ disk' = disk
             /\ opened' = opened
             /\ runs'[p][Len(runs'[p])].calls = runs[p][Len(runs[p])].calls
             /\ runs'[p][Len(runs'[p])].handled =
                    Append(runs[p][Len(runs[p])].handled, band[p])
             /\ pc'[p] \in {"check", "done"}
             /\ pc'[p] = "check" => band'[p] = band[p] + 1]_vars

\* A band was skipped: it is handled, no call was made for it, and the file
\* that was there before is still the same.
C2_Witness ==
    \E p \in procs : \E b \in 1..6 :
        /\ runs[p] # <<>>
        /\ \E i \in DOMAIN CurRun(p).handled : CurRun(p).handled[i] = b
        /\ \A i \in DOMAIN CurRun(p).calls : CurRun(p).calls[i].band # b
        /\ DestPath(ts, b) \in DOMAIN disk
        /\ disk[DestPath(ts, b)] = StaleFile

\* What C3 says of a step in which the invocation fails inside the with
\* block at band k: the invocation ends failed at band k there and then,
\* exactly one call was made for band k and none for a later band, bands
\* 1..k-1 are the ones handled, and every file of a band below k is there and
\* unchanged by the failure.
FailsAtOnce(p) ==
    LET k == band[p]
        r == runs[p][Len(runs[p])]
        r2 == runs'[p][Len(runs'[p])]
    IN  /\ Len(runs'[p]) = Len(runs[p])
        /\ r2.result = "failed"
        /\ r2.failband = k
        /\ band'[p] = k
        /\ r2.calls = r.calls
        /\ r2.handled = r.handled
        /\ r2.failstage = "copy"
        /\ r.handled = UpTo(k - 1)
        /\ Cardinality({i \in DOMAIN r.calls : r.calls[i].band = k}) = 1
        /\ \A i \in DOMAIN r.calls : r.calls[i].band <= k
        /\ \A b \in 1..(k - 1) :
              /\ DestPath(ts, b) \in DOMAIN disk
              /\ DestPath(ts, b) \in DOMAIN disk'
              /\ disk'[DestPath(ts, b)] = disk[DestPath(ts, b)]

FailsInWith(p) == pc[p] \in {"copy", "copying", "written"} /\ pc'[p] = "failed"

\* C3 as stated: when download_fileobj fails for band k the invocation fails
\* at once as above, and the exception that reaches the caller is the one
\* download_fileobj raised.
C3_Original ==
    [][\A p \in procs :
          (FailsInWith(p) /\ runs'[p][Len(runs'[p])].cause = "copy")
          => /\ FailsAtOnce(p)
             /\ runs'[p][Len(runs'[p])].error = "copy"]_vars

\* C3 amended: when the invocation fails inside the with block at band k it
\* fails at once as above (no retry, no later band, no rollback), and a
\* failed invocation's record never changes afterwards. When download_fileobj
\* raised, its exception is the one that reaches the caller, unless the close
\* of the file on the way out failed in writing out a non-empty buffer: then
\* the close's exception reaches the caller. When download_fileobj did not
\* raise, the failure is the close's.
C3_FailurePropagation ==
    [][\A p \in procs :
          /\ FailsInWith(p)
             => LET r2 == runs'[p][Len(runs'[p])]
                IN  /\ FailsAtOnce(p)
                    /\ r2.error \in {"copy", "close"}
                    /\ r2.error = "close" => buf[p] # {}
                    /\ r2.error = "copy" => r2.cause = "copy"
                    /\ r2.cause = "none" => r2.error = "close"
          /\ \A i \in DOMAIN runs[p] :
                runs[p][i].result = "failed"
                => i \in DOMAIN runs'[p] /\ runs'[p][i] = runs[p][i]]_vars

\* A copy has failed at a band above 1 after earlier bands of the same
\* invocation were downloaded; the exception of download_fileobj reached the
\* caller and the earlier files are complete.
C3_Witness ==
    \E p \in procs :
        /\ pc[p] = "failed"
        /\ CurRun(p).failstage = "copy"
        /\ CurRun(p).cause = "copy"
        /\ CurRun(p).error = "copy"
        /\ CurRun(p).failband >= 2
        /\ Len(CurRun(p).calls) >= 2
        /\ \A i \in DOMAIN CurRun(p).calls :
              CurRun(p).calls[i].band < CurRun(p).failband
              => Complete(disk[DestPath(ts, CurRun(p).calls[i].band)])

\* C4: the bands handled so far in an invocation are 1, 2, ... in order, each
\* once; the band in hand is the one after the last handled (so its test and
\* download start only after the one before is finished); the calls are in
\* increasing band order; and an invocation has ended normally exactly when
\* all six bands are handled.
C4_BandOrder ==
    \A p \in procs :
        /\ \A i \in DOMAIN runs[p] :
              LET r == runs[p][i]
              IN  /\ r.handled = UpTo(Len(r.handled))
                  /\ Increasing(CallBands(r))
                  /\ r.result = "done" <=> r.handled = <<1, 2, 3, 4, 5, 6>>
        /\ Running(p)
           => /\ band[p] = Len(CurRun(p).handled) + 1
              /\ band[p] \in 1..6
              /\ CurRun(p).result = "running"
              /\ \A i \in DOMAIN CurRun(p).calls : CurRun(p).calls[i].band <= band[p]
        /\ pc[p] = "done" <=> (runs[p] # <<>> /\ CurRun(p).result = "done")

\* An invocation has ended normally with downloads in it.
C4_Witness ==
    \E p \in procs :
        /\ pc[p] = "done"
        /\ CurRun(p).handled = <<1, 2, 3, 4, 5, 6>>
        /\ Len(CurRun(p).calls) >= 2

\* C6: for the Fetcher's timestamp and every band number, the dict carries
\* H08 with noaa-himawari8 when the timestamp is strictly before the cutover
\* and H09 with noaa-himawari9 otherwise; the key built for each band of the
\* loop carries that satellite code into the file name (data/HS_<code>_...);
\* every download call names that bucket
\* and the key built for its band, and the file opened for it records the
\* same source.
C6_SatelliteCutover ==
    LET code == IF StrictlyBeforeCutover(ts) THEN <<"H", "0", "8">> ELSE <<"H", "0", "9">>
        bucket == IF StrictlyBeforeCutover(ts) THEN HIMAWARI_8_BUCKET ELSE HIMAWARI_9_BUCKET
    IN  /\ \A b \in BandInputs :
              /\ ObjectNameDicts[ts][b].satellite_code = code
              /\ ObjectNameDicts[ts][b].bucket_name = bucket
        /\ \A b \in Bands :
              SubSeq(DestPath(ts, b), 9, 11) = code
        /\ \A p \in procs : \A i \in DOMAIN runs[p] : \A j \in DOMAIN runs[p][i].calls :
              LET c == runs[p][i].calls[j]
              IN  /\ c.bucket = bucket
                  /\ c.key = ObjectNames[ts][c.band]
                  /\ disk[DestPath(ts, c.band)].src = <<bucket, c.key>>

\* At the cutover instant itself a download has been made from noaa-himawari9.
C6_Witness ==
    /\ ts = Cutover
    /\ \E p \in procs : \E i \in DOMAIN runs[p] : \E j \in DOMAIN runs[p][i].calls :
          runs[p][i].calls[j].bucket = HIMAWARI_9_BUCKET

\* C9: once an invocation has failed in the copy for band k, the file of band
\* k is in the directory and holds exactly what it held when the copy failed
\* (so a file left incomplete stays incomplete), and no later invocation makes
\* a download call for band k: each finds the file and skips the band.
C9_PartialFilePoisons ==
    \A p \in procs : \A i \in DOMAIN runs[p] :
        (runs[p][i].result = "failed" /\ runs[p][i].failstage = "copy")
        => LET k == runs[p][i].failband
           IN  /\ DestPath(ts, k) \in DOMAIN disk
               /\ disk[DestPath(ts, k)].chunks = runs[p][i].left
               /\ runs[p][i].left # Chunks => ~Complete(disk[DestPath(ts, k)])
               /\ \A j \in DOMAIN runs[p] :
                     j > i => /\ k \notin runs[p][j].absent
                              /\ \A c \in DOMAIN runs[p][j].calls :
                                    runs[p][j].calls[c].band # k

\* A copy failed part-way; the next invocation went through all six bands
\* and ended normally; the partial file is still partial.
C9_Witness ==
    \E p \in procs :
        /\ Len(runs[p]) >= 2
        /\ runs[p][1].result = "failed"
        /\ runs[p][1].failstage = "copy"
        /\ runs[p][1].left = {1}
        /\ runs[p][2].result = "done"
        /\ runs[p][1].failband \in
               {runs[p][2].handled[j] : j \in DOMAIN runs[p][2].handled}
        /\ disk[DestPath(ts, runs[p][1].failband)].chunks = {1}

-----------------------------------------------------------------------------
(* Properties of two Fetchers racing (SpecRace) *)

\* C5 as stated: the open never finds a file at the destination path (an
\* exclusive open would raise instead of replacing it).
C5_Original == \A p \in procs : ~opened[p].existed

\* C5 amended: the open is a truncating one: it always leaves an empty file,
\* and when it finds a file at the path, that file was put there by another
\* process after this process's existence test.
C5_TruncatingWrite ==
    \A p \in procs :
        opened[p].band # 0
        => /\ opened[p].after = {}
           /\ opened[p].existed => (opened[p].others # {} /\ p \notin opened[p].others)

\* An open has truncated a file that already held part of the object.
C5_Witness ==
    \E p \in procs : opened[p].existed /\ opened[p].before # {}

\* C10: within one invocation a process makes at most one download call per
\* band (its calls go up in band order), so a band downloaded more than once
\* was downloaded by different processes.
C10_CheckThenActRace ==
    \A p \in procs : \A i \in DOMAIN runs[p] :
        /\ Increasing(CallBands(runs[p][i]))
        /\ \A b \in 1..6 :
              Cardinality({j \in DOMAIN runs[p][i].calls : runs[p][i].calls[j].band = b}) <= 1

\* Both processes found the same band's file absent, both opened the path and
\* called the download for the same key, and one open truncated the file while
\* the other process was writing it.
C10_Witness ==
    \E p \in procs : \E q \in procs \ {p} : \E b \in 1..6 :
        /\ runs[p] # <<>> /\ runs[q] # <<>>
        /\ \E i \in DOMAIN CurRun(p).calls : \E j \in DOMAIN CurRun(q).calls :
              /\ CurRun(p).calls[i].band = b
              /\ CurRun(q).calls[j].band = b
              /\ CurRun(p).calls[i].key = CurRun(q).calls[j].key
        /\ opened[p].band = b
        /\ opened[p].existed
        /\ q \in opened[p].writers

-----------------------------------------------------------------------------
(* Properties of the Key Builder (KeySpec) *)

SameEpoch(a, b) == a.dict.satellite_code = b.dict.satellite_code

\* C7 as stated: two calls with different (timestamp, band) pairs in the same
\* satellite epoch give different object keys.
C7_Original ==
    (/\ kb_prev.called
     /\ kb_cur.called
     /\ <<kb_prev.time, kb_prev.obs_band>> # <<kb_cur.time, kb_cur.obs_band>>
     /\ SameEpoch(kb_prev, kb_cur))
    => kb_prev.object_name # kb_cur.object_name

\* C7 amended: two calls in the same satellite epoch whose bands differ, or
\* whose timestamps differ in year, month, day, hour or minute, give different
\* object keys and different destination file names.
C7_KeyUniqueness ==
    (/\ kb_prev.called
     /\ kb_cur.called
     /\ <<MinuteOf(kb_prev.time), kb_prev.obs_band>> # <<MinuteOf(kb_cur.time), kb_cur.obs_band>>
     /\ SameEpoch(kb_prev, kb_cur))
    => /\ kb_prev.object_name # kb_cur.object_name
       /\ Basename(kb_prev.object_name) # Basename(kb_cur.object_name)
       /\ OutputFileName(kb_prev.object_name) # OutputFileName(kb_cur.object_name)

\* Two calls that differ in the minute alone, with different keys.
C7_Witness ==
    /\ kb_prev.called
    /\ kb_cur.called
    /\ kb_prev.obs_band = kb_cur.obs_band
    /\ kb_prev.time.minute # kb_cur.time.minute
    /\ [kb_prev.time EXCEPT !.minute = 0] = [kb_cur.time EXCEPT !.minute = 0]
    /\ kb_prev.object_name # kb_cur.object_name

\* C8 as stated: whatever the band number, the band code has 3 characters.
C8_Original == kb_cur.called => Len(kb_cur.dict.band) = 3

\* C8 amended: for a band number from 0 to 99 the band code is "B" and the
\* number's two decimal digits, 3 characters in all.
C8_BandCodeWidth ==
    (kb_cur.called /\ kb_cur.obs_band \in 0..99)
    => /\ Len(kb_cur.dict.band) = 3
       /\ kb_cur.dict.band = <<"B", DigitChars[(kb_cur.obs_band \div 10) + 1],
                               DigitChars[(kb_cur.obs_band % 10) + 1]>>

\* Band 4 has been formatted as B04.
C8_Witness ==
    /\ kb_cur.called
    /\ kb_cur.obs_band = 4
    /\ kb_cur.dict.band = <<"B", "0", "4">>

====
